---------------------------- MODULE Spec2Model ----------------------------
(***************************************************************************)
(* Model of the Firecracker VM daemon (src/firecracker-vm-daemon.py):      *)
(* the in-memory VM registry, the metrics counters, the stored log         *)
(* bundles, the secret sanitizer and the HTTP server loop that drives      *)
(* them.  Text is a sequence of one-character strings, so that the         *)
(* regular-expression substitutions of sanitize_output are computed        *)
(* character by character as re.sub computes them.                         *)
(***************************************************************************)
EXTENDS Integers, Sequences, FiniteSets, TLC

(***************************************************************************)
(* Bounds of the model.                                                    *)
(***************************************************************************)
\* The wall clock (datetime.now(), time.time()) takes the values 0..MaxTime.
MaxTime == 1
\* The counters of the metrics add up to MaxCount at most.
MaxCount == 3
\* Connections waiting in the listening socket's queue.
MaxBacklog == 1
\* The texts handed to sanitize_output on its own are made of at most
\* MaxPieces pieces.
MaxPieces == 5
\* sanitize_output is applied to its own result until MaxPasses passes are
\* made.
MaxPasses == 2

(***************************************************************************)
(* Text and character classes.                                             *)
(***************************************************************************)
Lower == {"a", "b", "c", "d", "e", "f", "g", "h", "i", "j", "k", "l", "m",
          "n", "o", "p", "q", "r", "s", "t", "u", "v", "w", "x", "y", "z"}

Upper == {"A", "B", "C", "D", "E", "F", "G", "H", "I", "J", "K", "L", "M",
          "N", "O", "P", "Q", "R", "S", "T", "U", "V", "W", "X", "Y", "Z"}

Digit == {"0", "1", "2", "3", "4", "5", "6", "7", "8", "9"}

\* [A-Za-z0-9]
Alnum == Lower \cup Upper \cup Digit

\* [A-Z0-9]
UpperDigit == Upper \cup Digit

\* \s
White == {" ", "\n", "\t", "\r"}

Quote == {"\""}

Rep(c, n) == [i \in 1..n |-> c]

\* text[i..] starts with the literal lit
StartsWith(text, i, lit) ==
    /\ i + Len(lit) - 1 <= Len(text)
    /\ \A k \in 1..Len(lit) : text[i + k - 1] = lit[k]

Min(S) == CHOOSE x \in S : \A y \in S : x <= y

\* length of the longest run of characters of class S starting at text[i]
RunIn(text, i, S) ==
    LET stops == {k \in i..Len(text) : text[k] \notin S}
    IN  IF i > Len(text) THEN 0
        ELSE IF stops = {} THEN Len(text) - i + 1
        ELSE Min(stops) - i

\* length of the longest run of characters outside class S starting at text[i]
RunNotIn(text, i, S) ==
    LET stops == {k \in i..Len(text) : text[k] \in S}
    IN  IF i > Len(text) THEN 0
        ELSE IF stops = {} THEN Len(text) - i + 1
        ELSE Min(stops) - i

\* whether sub occurs in text
Contains(text, sub) ==
    \E i \in 1..(Len(text) - Len(sub) + 1) : StartsWith(text, i, sub)

(***************************************************************************)
(* sanitize_output: the four re.sub calls, in the order of the source.     *)
(***************************************************************************)
\* gh[pousr]_[A-Za-z0-9]{36}: the length of the alphanumeric suffix
TokenSuffixLen == 36
\* BNNAW[A-Z0-9]{60,}: the least length of the suffix
LongTokenMin == 60
\* "github_token":\s*"[^"]{20,}": the least length of the value
JsonTokenMin == 20

TokenPrefixKinds == {"p", "o", "u", "s", "r"}

LongTokenPrefix == <<"B", "N", "N", "A", "W">>

JsonKey == <<"\"", "g", "i", "t", "h", "u", "b", "_", "t", "o", "k", "e", "n", "\"", ":">>

FlagName == <<"-", "-", "g", "i", "t", "h", "u", "b", "-", "t", "o", "k", "e", "n">>

TOKEN_HIDDEN == <<"[", "T", "O", "K", "E", "N", "_", "H", "I", "D", "D", "E", "N", "]">>

JsonHidden == <<"\"", "g", "i", "t", "h", "u", "b", "_", "t", "o", "k", "e", "n", "\"", ":", " ", "\"", "[", "H", "I", "D", "D", "E", "N", "]", "\"">>

FlagHidden == <<"-", "-", "g", "i", "t", "h", "u", "b", "-", "t", "o", "k", "e", "n", " ", "[", "H", "I", "D", "D", "E", "N", "]">>

\* The length of the match of pattern pat that starts at text[i], 0 if none.
\* Every quantifier is greedy and no pattern can match after backtracking
\* what it cannot match greedily, so the match is determined by the runs.
MatchLen(pat, text, i) ==
    CASE pat = 1 ->
           IF /\ i + 3 + TokenSuffixLen <= Len(text)
              /\ text[i] = "g" /\ text[i + 1] = "h"
              /\ text[i + 2] \in TokenPrefixKinds
              /\ text[i + 3] = "_"
              /\ \A k \in 1..TokenSuffixLen : text[i + 3 + k] \in Alnum
           THEN 4 + TokenSuffixLen ELSE 0
      [] pat = 2 ->
           IF StartsWith(text, i, LongTokenPrefix)
           THEN LET r == RunIn(text, i + 5, UpperDigit)
                IN  IF r >= LongTokenMin THEN 5 + r ELSE 0
           ELSE 0
      [] pat = 3 ->
           IF StartsWith(text, i, JsonKey)
           THEN LET w == RunIn(text, i + Len(JsonKey), White)
                    q == i + Len(JsonKey) + w
                IN  IF q <= Len(text) /\ text[q] = "\""
                    THEN LET v == RunNotIn(text, q + 1, Quote)
                         IN  IF v >= JsonTokenMin /\ q + 1 + v <= Len(text)
                             THEN Len(JsonKey) + w + 1 + v + 1 ELSE 0
                    ELSE 0
           ELSE 0
      [] pat = 4 ->
           IF StartsWith(text, i, FlagName)
           THEN LET w == RunIn(text, i + Len(FlagName), White)
                    v == RunNotIn(text, i + Len(FlagName) + w, White)
                IN  IF w >= 1 /\ v >= 1 THEN Len(FlagName) + w + v ELSE 0
           ELSE 0

Replacement(pat) ==
    CASE pat = 1 -> TOKEN_HIDDEN
      [] pat = 2 -> TOKEN_HIDDEN
      [] pat = 3 -> JsonHidden
      [] pat = 4 -> FlagHidden

\* re.sub: the leftmost match at or after text[i] is replaced, and the scan
\* goes on behind it
RECURSIVE SubFrom(_, _, _)
SubFrom(pat, text, i) ==
    LET starts == {k \in i..Len(text) : MatchLen(pat, text, k) > 0}
    IN  IF starts = {} THEN SubSeq(text, i, Len(text))
        ELSE LET m == Min(starts)
             IN  SubSeq(text, i, m - 1) \o Replacement(pat)
                 \o SubFrom(pat, text, m + MatchLen(pat, text, m))

re_sub(pat, text) == SubFrom(pat, text, 1)

sanitize_output(text) ==
    IF text = <<>> THEN text
    ELSE re_sub(4, re_sub(3, re_sub(2, re_sub(1, text))))


(***************************************************************************)
(* Python helpers: dict.get, str(int), str.split, str.strip, startswith.   *)
(***************************************************************************)
\* d.get(k, default)
Get(d, k, default) == IF k \in DOMAIN d THEN d[k] ELSE default

\* d[k] = v on a dict
Put(d, k, v) == (k :> v) @@ d

DigitChars == <<"0", "1", "2", "3", "4", "5", "6", "7", "8", "9">>

\* str(n) for n >= 0
RECURSIVE ToDec(_)
ToDec(n) ==
    IF n < 10 THEN <<DigitChars[n + 1]>>
    ELSE ToDec(n \div 10) \o <<DigitChars[(n % 10) + 1]>>

\* text.split(sep) for a one-character sep: the segments between separators
RECURSIVE SplitFrom(_, _, _)
SplitFrom(text, sep, i) ==
    LET seps == {k \in i..Len(text) : text[k] = sep}
    IN  IF seps = {} THEN <<SubSeq(text, i, Len(text))>>
        ELSE <<SubSeq(text, i, Min(seps) - 1)>> \o SplitFrom(text, sep, Min(seps) + 1)

Split(text, sep) == SplitFrom(text, sep, 1)

\* text.strip(ch): leading and trailing ch removed
Strip(text, ch) ==
    LET lead  == RunIn(text, 1, {ch})
        keep  == {k \in 1..Len(text) : text[k] # ch}
        last  == IF keep = {} THEN 0 ELSE CHOOSE k \in keep : \A j \in keep : j <= k
    IN  IF keep = {} THEN <<>> ELSE SubSeq(text, lead + 1, last)

(***************************************************************************)
(* Literal texts of the source.                                            *)
(***************************************************************************)
T_launch == <<"l", "a", "u", "n", "c", "h">>

T_stop == <<"s", "t", "o", "p">>

T_status == <<"s", "t", "a", "t", "u", "s">>

T_list == <<"l", "i", "s", "t">>

T_github_url == <<"-", "-", "g", "i", "t", "h", "u", "b", "-", "u", "r", "l">>

T_labels == <<"-", "-", "l", "a", "b", "e", "l", "s">>

T_memory == <<"-", "-", "m", "e", "m", "o", "r", "y">>

T_cpus == <<"-", "-", "c", "p", "u", "s">>

T_use_host_bridge == <<"-", "-", "u", "s", "e", "-", "h", "o", "s", "t", "-", "b", "r", "i", "d", "g", "e">>

T_arc_mode == <<"-", "-", "a", "r", "c", "-", "m", "o", "d", "e">>

T_arc_controller_url == <<"-", "-", "a", "r", "c", "-", "c", "o", "n", "t", "r", "o", "l", "l", "e", "r", "-", "u", "r", "l">>

T_controller == <<"h", "t", "t", "p", ":", "/", "/", "l", "o", "c", "a", "l", "h", "o", "s", "t", ":", "3", "0", "0", "8", "0">>

T_ephemeral_mode == <<"-", "-", "e", "p", "h", "e", "m", "e", "r", "a", "l", "-", "m", "o", "d", "e">>

T_firecracker == <<"f", "i", "r", "e", "c", "r", "a", "c", "k", "e", "r">>

T_startup == <<"s", "t", "a", "r", "t", "u", "p">>

T_console == <<"c", "o", "n", "s", "o", "l", "e">>

T_logs == <<"l", "o", "g", "s">>

T_metrics == <<"m", "e", "t", "r", "i", "c", "s">>

T_vm_prefix == <<"v", "m", "-">>

T_timed_out == <<"C", "o", "m", "m", "a", "n", "d", " ", "t", "i", "m", "e", "d", " ", "o", "u", "t", " ", "a", "f", "t", "e", "r", " ">>

T_seconds == <<" ", "s", "e", "c", "o", "n", "d", "s">>

T_created_ok == <<"V", "M", " ", "c", "r", "e", "a", "t", "e", "d", " ", "s", "u", "c", "c", "e", "s", "s", "f", "u", "l", "l", "y">>

T_deleted_ok == <<"V", "M", " ", "d", "e", "l", "e", "t", "e", "d", " ", "s", "u", "c", "c", "e", "s", "s", "f", "u", "l", "l", "y">>

P_health == <<"/", "h", "e", "a", "l", "t", "h">>

P_vms == <<"/", "v", "m", "s">>

P_metrics == <<"/", "m", "e", "t", "r", "i", "c", "s">>

P_vms_slash == <<"/", "v", "m", "s", "/">>

\* script timeouts, in seconds
CreateTimeout == 600

DefaultTimeout == 300

\* defaults of the creation spec
DefaultMemory == 8192

DefaultVcpus == 4


UpperSeq == <<"A", "B", "C", "D", "E", "F", "G", "H", "I", "J", "K", "L", "M",
              "N", "O", "P", "Q", "R", "S", "T", "U", "V", "W", "X", "Y", "Z">>

LowerSeq == <<"a", "b", "c", "d", "e", "f", "g", "h", "i", "j", "k", "l", "m",
              "n", "o", "p", "q", "r", "s", "t", "u", "v", "w", "x", "y", "z">>

LowerOf == [c \in Upper |-> LowerSeq[CHOOSE j \in 1..26 : UpperSeq[j] = c]]

\* text.lower()
ToLower(text) ==
    [k \in 1..Len(text) |-> IF text[k] \in Upper THEN LowerOf[text[k]] ELSE text[k]]

\* sep.join(parts)
RECURSIVE Join(_, _)
Join(parts, sep) ==
    IF parts = <<>> THEN <<>>
    ELSE IF Len(parts) = 1 THEN parts[1]
    ELSE parts[1] \o sep \o Join(Tail(parts), sep)

\* text.split(): the maximal runs of non-whitespace characters
RECURSIVE WordsFrom(_, _)
WordsFrom(text, i) ==
    IF i > Len(text) THEN <<>>
    ELSE IF text[i] \in White THEN WordsFrom(text, i + 1)
    ELSE LET n == RunNotIn(text, i, White)
         IN  <<SubSeq(text, i, i + n - 1)>> \o WordsFrom(text, i + n)

Words(text) == WordsFrom(text, 1)

\* the number a run of decimal digits denotes
RECURSIVE DigitsValue(_)
DigitsValue(ds) ==
    IF ds = <<>> THEN 0
    ELSE 10 * DigitsValue(SubSeq(ds, 1, Len(ds) - 1))
         + ((CHOOSE j \in 1..10 : DigitChars[j] = ds[Len(ds)]) - 1)

\* float(text) for the texts ps prints (digits "." one digit): the value in
\* tenths; ok is FALSE where float() raises ValueError.
ParseFloat(text) ==
    LET n == RunIn(text, 1, Digit)
    IN  IF /\ n >= 1 /\ Len(text) = n + 2
           /\ text[n + 1] = "." /\ text[n + 2] \in Digit
        THEN [ok |-> TRUE,
              tenths |-> 10 * DigitsValue(SubSeq(text, 1, n))
                         + DigitsValue(<<text[n + 2]>>)]
        ELSE IF n >= 1 /\ Len(text) = n
        THEN [ok |-> TRUE, tenths |-> 10 * DigitsValue(text)]
        ELSE [ok |-> FALSE, tenths |-> 0]

(***************************************************************************)
(* Inputs: identifiers, credentials, creation specs, requests.             *)
(***************************************************************************)
VmT1 == <<"t", "1">>

\* f"vm-{int(time.time())}"
GenId(t) == T_vm_prefix \o ToDec(t)

\* a credential of the shape GitHub issues: ghp_ and 36 alphanumerics
GithubToken == <<"g", "h", "p", "_">> \o Rep("a", TokenSuffixLen)

\* a credential that matches none of the sanitizer's patterns
PlainSecret == <<"S", "E", "C", "R", "E", "T", "1", "2", "3">>

UrlX == <<"h", "t", "t", "p", "s", ":", "/", "/", "x">>

SpecT1 ==
    [vm_id |-> VmT1, github_url |-> UrlX, github_token |-> GithubToken,
     memory_mb |-> 2048, vcpus |-> 2]

\* a spec without vm_id: the identifier is generated
SpecAnon == [github_token |-> PlainSecret]

EmptyDict == [k \in {} |-> 0]

NoBody == [valid |-> TRUE, data |-> EmptyDict]

JsonBody(d) == [valid |-> TRUE, data |-> d]

\* a body json.loads rejects
BadJson == [valid |-> FALSE, data |-> EmptyDict]

P_nope == <<"/", "n", "o", "p", "e">>

\* a request whose Content-Length header is the text len
BadLength(len) == [valid |-> TRUE, data |-> EmptyDict, length |-> len]

\* a JSON value that is not a string, where create_vm expects one
NotStr == <<"number", "5">>

\* isinstance(v, str): a text is a sequence of one-character strings
IsStr(v) == v = <<>> \/ v[1] # "number"

Request(m, p, b) == [method |-> m, path |-> p, body |-> b]

Requests ==
    { Request("GET", P_health, NoBody),
      Request("GET", P_vms, NoBody),
      Request("GET", P_metrics, NoBody),
      Request("GET", P_vms_slash \o VmT1, NoBody),
      Request("GET", P_vms_slash \o VmT1 \o <<"/">> \o T_logs, NoBody),
      Request("GET", P_vms_slash \o VmT1 \o <<"/">> \o T_metrics, NoBody),
      Request("GET", P_nope, NoBody),
      Request("POST", P_vms, JsonBody(SpecT1)),
      Request("POST", P_vms, JsonBody(SpecAnon)),
      Request("POST", P_vms, BadJson),
      Request("POST", P_vms, BadLength(GithubToken)),
      Request("POST", P_nope, NoBody),
      Request("POST", P_nope, BadJson),
      Request("DELETE", P_vms_slash \o VmT1, NoBody),
      Request("DELETE", P_nope, NoBody) }

NoReq == Request("", <<>>, NoBody)

(***************************************************************************)
(* The environment: what the external script, the file system and the     *)
(* process table may answer.                                               *)
(***************************************************************************)
T_enoent == <<"N", "o", " ", "s", "u", "c", "h", " ", "f", "i", "l", "e">>

T_started == <<"s", "t", "a", "r", "t", "e", "d", " ">>

T_failed == <<"f", "a", "i", "l", "e", "d", " ">>

\* the credential on a command line, if it carries one
TokenArg(cmd) ==
    LET at == {k \in 1..(Len(cmd) - 1) : cmd[k] = FlagName}
    IN  IF at = {} THEN <<>> ELSE cmd[Min(at) + 1]

\* What subprocess.run(cmd) may do: exit with a code and output, run into
\* the timeout, or fail to spawn.  The script may print the credential it
\* was given.
Outcomes(cmd) ==
    { [kind |-> "exit", returncode |-> 0,
       stdout |-> T_started \o TokenArg(cmd), stderr |-> <<>>],
      [kind |-> "exit", returncode |-> 1,
       stdout |-> <<>>, stderr |-> T_failed \o TokenArg(cmd)],
      [kind |-> "timeout", returncode |-> 0, stdout |-> <<>>, stderr |-> <<>>],
      [kind |-> "error", returncode |-> 0, stdout |-> <<>>, stderr |-> T_enoent] }

LogDirs ==
    << <<"/", "o", "p", "t", "/", "f", "i", "r", "e", "c", "r", "a", "c", "k", "e", "r", "/">>,
       <<"/", "t", "m", "p", "/">>,
       <<"/", "v", "a", "r", "/", "l", "o", "g", "/", "f", "i", "r", "e", "c", "r", "a", "c", "k", "e", "r", "/">>,
       <<"/", "o", "p", "t", "/", "f", "i", "r", "e", "c", "r", "a", "c", "k", "e", "r", "/", "l", "o", "g", "s", "/">> >>

T_dot_log == <<".", "l", "o", "g">>

File(p, c) == [path |-> p, content |-> c]

\* the log files that may exist, in directory order
FileSystems ==
    { <<>>,
      << File(<<"/", "t", "m", "p", "/", "t", "1", "-", "s", "t", "a", "r", "t", "u", "p", ".", "l", "o", "g">>, <<"b", "o", "o", "t", " ", "o", "k">>),
         File(<<"/", "t", "m", "p", "/", "t", "1", "-", "c", "o", "n", "s", "o", "l", "e", ".", "l", "o", "g">>, <<"t", "o", "k", "=">> \o GithubToken) >> }

\* the lines `ps aux` may print
ProcessTables ==
    { <<>>,
      << <<"r", "o", "o", "t", " ", "7", " ", "5", ".", "0", " ", "1", ".", "5", " ", "f", "i", "r", "e", "c", "r", "a", "c", "k", "e", "r", " ", "-", "-", "i", "d", " ", "t", "1">> >> }

\* either nothing of the VM is left on the host, or its log files and its
\* process are there
Environments ==
    {[files |-> fs, ps |-> pt] : fs \in FileSystems, pt \in ProcessTables}
    \ {e \in [files : FileSystems, ps : ProcessTables] : (e.files = <<>>) # (e.ps = <<>>)}


(***************************************************************************)
(* Process Executor.                                                       *)
(***************************************************************************)
\* execute_script: the result dict for what subprocess.run did
execute_script(o, timeout) ==
    CASE o.kind = "exit" ->
           [success |-> (o.returncode = 0), returncode |-> o.returncode,
            stdout |-> sanitize_output(o.stdout),
            stderr |-> sanitize_output(o.stderr)]
      [] o.kind = "timeout" ->
           [success |-> FALSE, returncode |-> -1, stdout |-> <<>>,
            stderr |-> T_timed_out \o ToDec(timeout) \o T_seconds]
      [] o.kind = "error" ->
           [success |-> FALSE, returncode |-> -1, stdout |-> <<>>,
            stderr |-> o.stderr]

NoResult == [success |-> FALSE, returncode |-> 0, stdout |-> <<>>, stderr |-> <<>>]

T_join_error ==
    <<"e", "x", "p", "e", "c", "t", "e", "d", " ", "s", "t", "r", " ", "i", "n", "s", "t", "a", "n", "c", "e">>

\* execute_script from its first line on: ' '.join(cmd) for the log line
\* is evaluated before the try block is entered
call_execute_script(cmd, o, timeout) ==
    IF \E k \in DOMAIN cmd : ~IsStr(cmd[k])
    THEN [raised |-> TRUE, error |-> T_join_error, result |-> NoResult]
    ELSE [raised |-> FALSE, error |-> <<>>, result |-> execute_script(o, timeout)]


\* the launch command line create_vm builds from the spec
launch_args(vm_spec, vm_id) ==
    << T_launch, vm_id,
       T_github_url, Get(vm_spec, "github_url", <<>>),
       FlagName, Get(vm_spec, "github_token", <<>>),
       T_labels, Get(vm_spec, "labels", T_firecracker),
       T_memory, ToDec(Get(vm_spec, "memory_mb", DefaultMemory)),
       T_cpus, ToDec(Get(vm_spec, "vcpus", DefaultVcpus)),
       T_use_host_bridge, T_arc_mode, T_arc_controller_url, T_controller >>
    \o (IF Get(vm_spec, "ephemeral", TRUE) THEN <<T_ephemeral_mode>> ELSE <<>>)

(***************************************************************************)
(* Log collection and per-VM metrics.                                      *)
(***************************************************************************)
\* glob.glob(f"{dir}{vm_id}*.log") matches path
GlobMatch(dir, vm_id, path) ==
    /\ StartsWith(path, 1, dir \o vm_id)
    /\ Len(path) >= Len(dir) + Len(vm_id) + Len(T_dot_log)
    /\ StartsWith(path, Len(path) - Len(T_dot_log) + 1, T_dot_log)
    /\ \A k \in (Len(dir) + 1)..Len(path) : path[k] # "/"

\* the category collect_vm_logs files a log file under
LogCategory(path) ==
    IF Contains(ToLower(path), T_startup) THEN "startup_log"
    ELSE IF Contains(ToLower(path), T_firecracker) THEN "firecracker_log"
    ELSE IF Contains(ToLower(path), T_console) THEN "console_log"
    ELSE "vm_log"

\* the text the files of one glob pattern add to category cat
RECURSIVE FilesText(_, _, _, _)
FilesText(files, dir, vm_id, cat) ==
    IF files = <<>> THEN <<>>
    ELSE (IF GlobMatch(dir, vm_id, files[1].path) /\ LogCategory(files[1].path) = cat
          THEN files[1].content \o <<"\n">> ELSE <<>>)
         \o FilesText(Tail(files), dir, vm_id, cat)

RECURSIVE DirsText(_, _, _, _)
DirsText(dirs, files, vm_id, cat) ==
    IF dirs = <<>> THEN <<>>
    ELSE FilesText(files, dirs[1], vm_id, cat) \o DirsText(Tail(dirs), files, vm_id, cat)

T_process == <<"P", "r", "o", "c", "e", "s", "s", ":", " ">>

\* whether a line of ps belongs to the VM
PsMatch(line, vm_id) ==
    Contains(line, vm_id) /\ Contains(ToLower(line), T_firecracker)

RECURSIVE PsText(_, _)
PsText(lines, vm_id) ==
    IF lines = <<>> THEN <<>>
    ELSE (IF PsMatch(lines[1], vm_id)
          THEN T_process \o lines[1] \o <<"\n">> ELSE <<>>)
         \o PsText(Tail(lines), vm_id)

\* text, n times over
RECURSIVE Times(_, _)
Times(text, n) == IF n = 0 THEN <<>> ELSE text \o Times(text, n - 1)

\* A variant of collect_vm_logs that appends to what the t earlier
\* collections found.  C24 tells it from collect_vm_logs.
collect_vm_logs_appending(vm_id, env, t) ==
    [startup_log |-> sanitize_output(Times(DirsText(LogDirs, env.files, vm_id, "startup_log"), t + 1)),
     firecracker_log |-> sanitize_output(Times(DirsText(LogDirs, env.files, vm_id, "firecracker_log"), t + 1)),
     vm_log |-> sanitize_output(Times(DirsText(LogDirs, env.files, vm_id, "vm_log"), t + 1)
                                \o PsText(env.ps, vm_id)),
     console_log |-> sanitize_output(Times(DirsText(LogDirs, env.files, vm_id, "console_log"), t + 1)),
     collected_at |-> t]

collect_vm_logs(vm_id, env, t) ==
    [startup_log |-> sanitize_output(DirsText(LogDirs, env.files, vm_id, "startup_log")),
     firecracker_log |-> sanitize_output(DirsText(LogDirs, env.files, vm_id, "firecracker_log")),
     vm_log |-> sanitize_output(DirsText(LogDirs, env.files, vm_id, "vm_log")
                                \o PsText(env.ps, vm_id)),
     console_log |-> sanitize_output(DirsText(LogDirs, env.files, vm_id, "console_log")),
     collected_at |-> t]

\* get_vm_logs: stored logs, overwritten by the fresh collection
get_vm_logs(logs, vm_id, env, t) ==
    Put(collect_vm_logs(vm_id, env, t) @@ Get(logs, vm_id, EmptyDict), "vm_id", vm_id)

\* the usage figures after scanning the ps lines: the last matching line
\* whose fields parse sets them
RECURSIVE PsUsage(_, _, _)
PsUsage(lines, vm_id, acc) ==
    IF lines = <<>> THEN acc
    ELSE LET parts == Words(lines[1])
             cpu == ParseFloat(parts[3])
             mem == ParseFloat(parts[4])
             next == IF PsMatch(lines[1], vm_id) /\ Len(parts) >= 4 /\ cpu.ok
                     THEN [cpu |-> cpu.tenths,
                           mem |-> IF mem.ok THEN mem.tenths ELSE acc.mem]
                     ELSE acc
         IN  PsUsage(Tail(lines), vm_id, next)

\* A variant of get_vm_metrics that takes a VM without a record for a
\* running one.  C17 tells it from get_vm_metrics.
get_vm_metrics_default_running(reg, vm_id, env, t) ==
    LET vm_info == Get(reg, vm_id, EmptyDict)
        usage == PsUsage(env.ps, vm_id, [cpu |-> 0, mem |-> 0])
    IN  [vm_id |-> vm_id,
         status |-> Get(vm_info, "status", "running"),
         cpu_usage |-> usage.cpu,
         memory_usage |-> usage.mem,
         network_stats |-> EmptyDict,
         uptime |-> IF "created" \in DOMAIN vm_info THEN t - vm_info["created"] ELSE 0,
         collected_at |-> t]

get_vm_metrics(reg, vm_id, env, t) ==
    LET vm_info == Get(reg, vm_id, EmptyDict)
        usage == PsUsage(env.ps, vm_id, [cpu |-> 0, mem |-> 0])
    IN  [vm_id |-> vm_id,
         status |-> Get(vm_info, "status", "unknown"),
         cpu_usage |-> usage.cpu,
         memory_usage |-> usage.mem,
         network_stats |-> EmptyDict,
         uptime |-> IF "created" \in DOMAIN vm_info THEN t - vm_info["created"] ELSE 0,
         collected_at |-> t]

get_daemon_metrics(reg, m, env, t) ==
    [total_vms_created |-> m.total_vms_created,
     total_vms_deleted |-> m.total_vms_deleted,
     current_vms |-> m.current_vms,
     failed_creations |-> m.failed_creations,
     daemon_start_time |-> m.daemon_start_time,
     current_time |-> t,
     uptime_seconds |-> t - m.daemon_start_time,
     vm_metrics |-> [i \in DOMAIN reg |-> get_vm_metrics(reg, i, env, t)]]

(***************************************************************************)
(* HTTP routing: which operation a request reaches.                        *)
(***************************************************************************)
RouteTo(k, id) == [kind |-> k, vm_id |-> id]

do_GET(path) ==
    IF path = P_health THEN RouteTo("health", <<>>)
    ELSE IF path = P_vms THEN RouteTo("list", <<>>)
    ELSE IF path = P_metrics THEN RouteTo("daemon_metrics", <<>>)
    ELSE IF StartsWith(path, 1, P_vms_slash)
    THEN LET path_parts == Split(Strip(path, "/"), "/")
         IN  IF Len(path_parts) >= 2
             THEN IF Len(path_parts) = 2 THEN RouteTo("status", path_parts[2])
                  ELSE IF Len(path_parts) = 3
                  THEN IF path_parts[3] = T_logs THEN RouteTo("logs", path_parts[2])
                       ELSE IF path_parts[3] = T_metrics
                       THEN RouteTo("vm_metrics", path_parts[2])
                       ELSE RouteTo("not_found", <<>>)
                  ELSE RouteTo("not_found", <<>>)
             ELSE RouteTo("not_found", <<>>)
    ELSE RouteTo("not_found", <<>>)

\* do_POST after the body is parsed; the identifier is chosen in create_vm
T_invalid_literal ==
    <<"i", "n", "v", "a", "l", "i", "d", " ", "l", "i", "t", "e", "r", "a", "l", " ", "f", "o", "r", " ", "i", "n", "t", "(", ")", ":", " ">>

\* int(self.headers.get('Content-Length', 0)) returns
LengthOk(body) ==
    "length" \in DOMAIN body =>
        body.length # <<>> /\ \A k \in DOMAIN body.length : body.length[k] \in Digit

\* str(e) of the exception the handler catches with `except Exception`
ServerError(req) ==
    T_invalid_literal \o <<"'">> \o req.body.length \o <<"'">>

do_POST(path, body) ==
    IF ~LengthOk(body) THEN RouteTo("error", <<>>)
    ELSE IF ~body.valid THEN RouteTo("bad_json", <<>>)
    ELSE IF path = P_vms THEN RouteTo("create", <<>>)
    ELSE RouteTo("not_found", <<>>)

do_DELETE(path) ==
    IF StartsWith(path, 1, P_vms_slash)
    THEN LET parts == Split(path, "/") IN RouteTo("delete", parts[Len(parts)])
    ELSE RouteTo("not_found", <<>>)

Route(req) ==
    CASE req.method = "GET" -> do_GET(req.path)
      [] req.method = "POST" -> do_POST(req.path, req.body)
      [] req.method = "DELETE" -> do_DELETE(req.path)



(***************************************************************************)
(* State.                                                                  *)
(***************************************************************************)
VARIABLES
    vms,        \* self.vms: identifier -> record
    vm_logs,    \* self.vm_logs: identifier -> stored log bundle
    metrics,    \* self.metrics
    now,        \* the wall clock
    resp,       \* the response sent last, with the request it answers
    backlog,    \* connections queued at the listening socket
    handler,    \* the request handlers: position, request, executor result
    arg,        \* the input of a function applied on its own
    ret         \* what the function returned for it, call by call

vars == <<vms, vm_logs, metrics, now, resp, backlog, handler, arg, ret>>

\* the daemon object's mutable fields
Daemon == [vms |-> vms, vm_logs |-> vm_logs, metrics |-> metrics]

\* FirecrackerVMDaemon.__init__
NewDaemon(t) ==
    [vms |-> EmptyDict, vm_logs |-> EmptyDict,
     metrics |-> [total_vms_created |-> 0, total_vms_deleted |-> 0,
                  current_vms |-> 0, failed_creations |-> 0,
                  daemon_start_time |-> t]]

(***************************************************************************)
(* create_vm after the script has returned, statement by statement.        *)
(***************************************************************************)
\* A variant of track_vm that keeps the record an identifier already has.
\* C1 tells it from track_vm.
track_vm_keep_existing(d, vm_id, vm_spec, t) ==
    IF vm_id \in DOMAIN d.vms THEN d
    ELSE [d EXCEPT !.vms = Put(@, vm_id,
                               [created |-> t, status |-> "running",
                                spec |-> vm_spec, networking |-> "bridge-br0"])]

\* A variant of track_vm that updates the fields of a record the identifier
\* already has and keeps its other fields.  C23 tells it from track_vm.
track_vm_updating(d, vm_id, vm_spec, t) ==
    [d EXCEPT !.vms = Put(@, vm_id,
                          [created |-> t, status |-> "running",
                           spec |-> vm_spec, networking |-> "bridge-br0"]
                          @@ Get(d.vms, vm_id, EmptyDict))]

\* self.vms[vm_id] = {...}
track_vm(d, vm_id, vm_spec, t) ==
    [d EXCEPT !.vms = Put(@, vm_id,
                          [created |-> t, status |-> "running",
                           spec |-> vm_spec, networking |-> "bridge-br0"])]

\* self.vm_logs[vm_id] = {...}
store_creation_logs(d, vm_id, result, t) ==
    [d EXCEPT !.vm_logs = Put(@, vm_id,
                              [creation_log |-> result.stdout,
                               creation_errors |-> result.stderr,
                               created_at |-> t])]

\* self.metrics["total_vms_created"] += 1
count_created(d) == [d EXCEPT !.metrics.total_vms_created = @ + 1]

\* self.metrics["current_vms"] = len(self.vms)
set_current_after_create(d) ==
    [d EXCEPT !.metrics.current_vms = Cardinality(DOMAIN d.vms)]

\* A variant of count_failed that counts the attempt as a creation.
\* C2 tells it from count_failed.
count_failed_as_created(d) == [d EXCEPT !.metrics.total_vms_created = @ + 1]

\* self.metrics["failed_creations"] += 1
count_failed(d) == [d EXCEPT !.metrics.failed_creations = @ + 1]

\* A variant of store_failure_logs that also marks a record the identifier
\* has as failed.  C32 tells it from store_failure_logs.
store_failure_logs_marking(d, vm_id, result, t) ==
    [d EXCEPT !.vm_logs = Put(@, vm_id,
                              [creation_log |-> result.stdout,
                               creation_errors |-> result.stderr,
                               created_at |-> t,
                               status |-> "failed"]),
              !.vms = IF vm_id \in DOMAIN @
                      THEN Put(@, vm_id, Put(@[vm_id], "status", "failed"))
                      ELSE @]

\* self.vm_logs[vm_id] = {..., "status": "failed"}
store_failure_logs(d, vm_id, result, t) ==
    [d EXCEPT !.vm_logs = Put(@, vm_id,
                              [creation_log |-> result.stdout,
                               creation_errors |-> result.stderr,
                               created_at |-> t,
                               status |-> "failed"])]

\* create_vm from the return of execute_script on
create_vm(d, vm_id, vm_spec, result, t) ==
    IF result.success
    THEN set_current_after_create(
             count_created(
                 store_creation_logs(track_vm(d, vm_id, vm_spec, t), vm_id, result, t)))
    ELSE store_failure_logs(count_failed(d), vm_id, result, t)

(***************************************************************************)
(* delete_vm after the script has returned, statement by statement.        *)
(***************************************************************************)
\* A variant of mark_deleted that leaves the status as it is.  C14 tells it
\* from mark_deleted.
mark_deleted_skipped(d, vm_id) == d

\* self.vms[vm_id]["status"] = "deleted"
mark_deleted(d, vm_id) ==
    [d EXCEPT !.vms[vm_id] = Put(@, "status", "deleted")]

\* A variant of stamp_deleted that drops the record instead of stamping it.
\* C7 tells it from stamp_deleted.
stamp_deleted_removing(d, vm_id, t) ==
    [d EXCEPT !.vms = [i \in (DOMAIN @) \ {vm_id} |-> @[i]]]

\* self.vms[vm_id]["deleted_at"] = datetime.now().isoformat()
stamp_deleted(d, vm_id, t) ==
    [d EXCEPT !.vms[vm_id] = Put(@, "deleted_at", t)]

\* A variant of count_deleted that counts a delete twice.  C27 tells it
\* from count_deleted.
count_deleted_twice(d) == [d EXCEPT !.metrics.total_vms_deleted = @ + 2]

\* self.metrics["total_vms_deleted"] += 1
count_deleted(d) == [d EXCEPT !.metrics.total_vms_deleted = @ + 1]

\* the records whose status is not "deleted"
NotDeleted(reg) == {i \in DOMAIN reg : Get(reg[i], "status", "") # "deleted"}

\* self.metrics["current_vms"] = len([v for v in ... if status != "deleted"])
set_current_after_delete(d) ==
    [d EXCEPT !.metrics.current_vms = Cardinality(NotDeleted(d.vms))]

\* the deletion log, errors and timestamp are added to the stored bundle
store_deletion_logs(d, vm_id, result, t) ==
    [d EXCEPT !.vm_logs =
        Put(@, vm_id,
            Put(Put(Put(Get(@, vm_id, EmptyDict),
                        "deletion_log", result.stdout),
                    "deletion_errors", result.stderr),
                "deleted_at", t))]

\* A variant of delete_vm that updates the registry only when the stop call
\* succeeded.  C4 tells it from delete_vm.
delete_vm_if_stopped(d, vm_id, result, t) ==
    store_deletion_logs(
        IF vm_id \in DOMAIN d.vms /\ result.success
        THEN set_current_after_delete(
                 count_deleted(stamp_deleted(mark_deleted(d, vm_id), vm_id, t)))
        ELSE d,
        vm_id, result, t)

\* A variant of delete_vm that counts a deletion whether or not the
\* identifier has a record.  C5 tells it from delete_vm.
delete_vm_counting_unknown(d, vm_id, result, t) ==
    store_deletion_logs(
        IF vm_id \in DOMAIN d.vms
        THEN set_current_after_delete(
                 count_deleted(stamp_deleted(mark_deleted(d, vm_id), vm_id, t)))
        ELSE count_deleted(d),
        vm_id, result, t)

\* delete_vm from the return of execute_script on
delete_vm(d, vm_id, result, t) ==
    store_deletion_logs(
        IF vm_id \in DOMAIN d.vms
        THEN set_current_after_delete(
                 count_deleted(stamp_deleted(mark_deleted(d, vm_id), vm_id, t)))
        ELSE d,
        vm_id, result, t)

(***************************************************************************)
(* The operations as the handlers call them.                               *)
(***************************************************************************)
\* the operations that run the script
ScriptKinds == {"create", "delete", "status", "list"}

\* the operations that read the file system or the process table
ScanKinds == {"logs", "vm_metrics", "daemon_metrics"}

\* the identifier the operation works on: create_vm takes it from the spec
\* or generates it from the clock
VmIdOf(req, r, t) ==
    IF r.kind = "create" THEN Get(req.body.data, "vm_id", GenId(t)) ELSE r.vm_id

\* A variant of script_args in which a status query asks the script for its
\* list.  C29 tells it from script_args.
script_args_status_as_list(kind, vm_id, vm_spec) ==
    CASE kind = "create" -> launch_args(vm_spec, vm_id)
      [] kind = "delete" -> <<T_stop, vm_id>>
      [] kind = "status" -> <<T_list>>
      [] kind = "list" -> <<T_list>>

\* the argument list handed to execute_script
script_args(kind, vm_id, vm_spec) ==
    CASE kind = "create" -> launch_args(vm_spec, vm_id)
      [] kind = "delete" -> <<T_stop, vm_id>>
      [] kind = "status" -> <<T_status, vm_id>>
      [] kind = "list" -> <<T_list>>

ScriptTimeout(kind) == IF kind = "create" THEN CreateTimeout ELSE DefaultTimeout

\* A variant of Apply in which a status query whose script call failed marks
\* a tracked VM as deleted.  C21 tells it from Apply.
Apply_syncing_status(d, kind, vm_id, vm_spec, result, t) ==
    CASE kind = "create" -> create_vm(d, vm_id, vm_spec, result, t)
      [] kind = "delete" -> delete_vm(d, vm_id, result, t)
      [] kind = "status" /\ ~result.success /\ vm_id \in DOMAIN d.vms ->
           mark_deleted(d, vm_id)
      [] OTHER -> d

\* the daemon after the in-memory part of the operation
Apply(d, kind, vm_id, vm_spec, result, t) ==
    CASE kind = "create" -> create_vm(d, vm_id, vm_spec, result, t)
      [] kind = "delete" -> delete_vm(d, vm_id, result, t)
      [] OTHER -> d

T_not_found == <<"N", "o", "t", " ", "F", "o", "u", "n", "d">>

T_invalid_json == <<"I", "n", "v", "a", "l", "i", "d", " ", "J", "S", "O", "N">>

\* the JSON document the handler sends: the operation's return value as
\* send_json_response serialises it
ResponseBody(d, kind, vm_id, result, env, t) ==
    CASE kind = "health" -> [status |-> "healthy", daemon |-> "firecracker-vm"]
      [] kind = "list" ->
           [success |-> result.success, vms |-> d.vms,
            host_status |-> result.stdout, details |-> result,
            metrics |-> d.metrics]
      [] kind = "daemon_metrics" -> get_daemon_metrics(d.vms, d.metrics, env, t)
      [] kind = "status" ->
           [vm_id |-> vm_id, success |-> result.success,
            status |-> Get(Get(d.vms, vm_id, EmptyDict), "status", "unknown"),
            details |-> result.stdout,
            vm_info |-> Get(d.vms, vm_id, EmptyDict)]
      [] kind = "logs" ->
           [success |-> TRUE, vm_id |-> vm_id,
            logs |-> get_vm_logs(d.vm_logs, vm_id, env, t)]
      [] kind = "vm_metrics" ->
           [success |-> TRUE, vm_id |-> vm_id,
            metrics |-> get_vm_metrics(d.vms, vm_id, env, t)]
      [] kind = "create" ->
           [vm_id |-> vm_id, success |-> result.success,
            message |-> IF ~result.success THEN result.stderr ELSE T_created_ok,
            details |-> result]
      [] kind = "delete" ->
           [vm_id |-> vm_id, success |-> result.success,
            message |-> IF ~result.success THEN result.stderr ELSE T_deleted_ok]
      [] kind = "not_found" -> [error |-> T_not_found]
      [] kind = "bad_json" -> [error |-> T_invalid_json]

\* A variant of ResponseCode that answers every create with 201.  C15 tells
\* it from ResponseCode.
ResponseCode_always_created(kind, result) ==
    CASE kind = "create" -> 201
      [] kind = "not_found" -> 404
      [] kind = "bad_json" -> 400
      [] kind = "error" -> 500
      [] OTHER -> 200

ResponseCode(kind, result) ==
    CASE kind = "create" -> IF result.success THEN 201 ELSE 400
      [] kind = "not_found" -> 404
      [] kind = "bad_json" -> 400
      [] kind = "error" -> 500
      [] OTHER -> 200

\* what the handler sends: the operation's return value, or send_error's
\* message
SentBody(req, d, kind, vm_id, result, env, t) ==
    IF kind = "error" THEN [error |-> ServerError(req)]
    ELSE ResponseBody(d, kind, vm_id, result, env, t)

NoOutcome == [kind |-> "none", returncode |-> 0, stdout |-> <<>>, stderr |-> <<>>]

NoEnvironment == [files |-> <<>>, ps |-> <<>>]

\* resp: the request, the response, the script calls the operation made and
\* their result, and the daemon as it was when the request was taken up
Response(req, kind, vm_id, calls, result, code, body, pre, t0) ==
    [kind |-> kind, req |-> req, vm_id |-> vm_id, calls |-> calls,
     result |-> result, code |-> code, body |-> body, pre |-> pre,
     started |-> t0]

NoResp ==
    Response(NoReq, "none", <<>>, <<>>, NoResult, 0, EmptyDict, NewDaemon(0), 0)

\* the counters of the model are capped: no create or delete is taken up
\* once they add up to MaxCount
WithinBounds(kind) ==
    kind \in {"create", "delete"} =>
        metrics.total_vms_created + metrics.failed_creations
            + metrics.total_vms_deleted < MaxCount

\* Request handler instances the server could run side by side.
NumHandlers == 2

Handlers == 1..NumHandlers

\* a handler: where it stands, its request, the operation the request was
\* routed to, the script call it made and the result, and the daemon as it
\* was when the request was taken up
IdleHandler ==
    [pc |-> "idle", req |-> NoReq, kind |-> "none", vm_id |-> <<>>,
     calls |-> <<>>, result |-> NoResult, pre |-> NewDaemon(0), started |-> 0]

\* no function is applied on its own
NoArg == [fn |-> "none"]

Init ==
    /\ vms = NewDaemon(0).vms
    /\ vm_logs = NewDaemon(0).vm_logs
    /\ metrics = NewDaemon(0).metrics
    /\ now = 0
    /\ resp = NoResp
    /\ backlog = 0
    /\ handler = [h \in Handlers |-> IdleHandler]
    /\ arg = NoArg
    /\ ret = <<>>

\* the daemon's fields become those of d
Becomes(d) ==
    /\ vms' = d.vms
    /\ vm_logs' = d.vm_logs
    /\ metrics' = d.metrics

(***************************************************************************)
(* Spec: requests handled one at a time, each from its arrival to its      *)
(* response, as HTTPServer.serve_forever handles them.                     *)
(***************************************************************************)
\* The clock is coarse: it advances between requests, and a request is
\* answered at the clock value it was taken up at.
Tick ==
    /\ now < MaxTime
    /\ resp = NoResp
    /\ \A h \in Handlers : handler[h].pc = "idle"
    /\ now' = now + 1
    /\ UNCHANGED <<vms, vm_logs, metrics, resp, backlog, handler, arg, ret>>

\* the script call of the operation, if it makes one
ScriptCalls(kind, vm_id, vm_spec) ==
    IF kind \in ScriptKinds THEN <<script_args(kind, vm_id, vm_spec)>> ELSE <<>>

\* do_GET, do_POST, do_DELETE: the request is routed, the operation runs and
\* the response is sent
Serve(req) ==
    LET r == Route(req)
        vm_id == VmIdOf(req, r, now)
        calls == ScriptCalls(r.kind, vm_id, req.body.data)
    IN  /\ resp = NoResp
        /\ WithinBounds(r.kind)
        /\ \E o \in (IF calls # <<>> THEN Outcomes(calls[1]) ELSE {NoOutcome}),
              env \in (IF r.kind \in ScanKinds THEN Environments ELSE {NoEnvironment}) :
              LET result == IF calls # <<>>
                            THEN execute_script(o, ScriptTimeout(r.kind))
                            ELSE NoResult
                  d == Apply(Daemon, r.kind, vm_id, req.body.data, result, now)
              IN  /\ Becomes(d)
                  /\ resp' = Response(req, r.kind, vm_id, calls, result,
                                      ResponseCode(r.kind, result),
                                      SentBody(req, d, r.kind, vm_id, result, env, now),
                                      Daemon, now)
        /\ UNCHANGED <<now, backlog, handler, arg, ret>>

\* the handler returns and the server closes the connection
Close ==
    /\ resp # NoResp
    /\ \A h \in Handlers : handler[h].pc = "idle"
    /\ resp' = NoResp
    /\ UNCHANGED <<vms, vm_logs, metrics, now, backlog, handler, arg, ret>>

Next ==
    \/ Tick
    \/ \E req \in Requests : Serve(req)
    \/ Close

Spec == Init /\ [][Next]_vars

(***************************************************************************)
(* SpecServer: the same operations statement by statement, under the       *)
(* server loop.  HTTPServer.serve_forever takes the next connection only   *)
(* after the handler of the previous one has returned.  The clock stands   *)
(* still here: what is explored is the order of the handlers' steps.       *)
(***************************************************************************)
\* a client connects; the listening socket queues the connection
Arrive ==
    /\ backlog < MaxBacklog
    /\ backlog' = backlog + 1
    /\ UNCHANGED <<vms, vm_logs, metrics, now, resp, handler, arg, ret>>

\* A variant of ServerFree for a server that starts a handler per connection.
\* C9 tells it from ServerFree.
ServerFreeThreaded == TRUE

\* whether the server loop is at its accept: no handler is running
ServerFree == \A g \in Handlers : handler[g].pc = "idle"

\* the positions of create_vm and delete_vm between their first and their
\* last update of the registry and the counters
MidUpdate ==
    {"create_logs", "create_count", "create_current",
     "delete_stamp", "delete_count", "delete_current"}

\* the handler reads the request from the connection, routes it and runs
\* the operation up to its script call, if it makes one
Accept(h) ==
    /\ backlog > 0
    /\ handler[h].pc = "idle"
    /\ \A g \in Handlers : g < h => handler[g].pc # "idle"
    /\ ServerFree
    /\ \E req \in Requests :
          LET r == Route(req)
              vm_id == VmIdOf(req, r, now)
              calls == ScriptCalls(r.kind, vm_id, req.body.data)
          IN  /\ WithinBounds(r.kind)
              /\ handler' = [handler EXCEPT ![h] =
                    [pc |-> IF calls # <<>> THEN "exec" ELSE "respond",
                     req |-> req, kind |-> r.kind, vm_id |-> vm_id,
                     calls |-> calls, result |-> NoResult, pre |-> Daemon,
                     started |-> now]]
    /\ backlog' = backlog - 1
    /\ UNCHANGED <<vms, vm_logs, metrics, now, resp, arg, ret>>

\* the position after execute_script has returned
AfterExec(kind, result) ==
    CASE kind = "create" -> IF result.success THEN "create_track" ELSE "fail_count"
      [] kind = "delete" -> "delete_mark"
      [] OTHER -> "respond"

\* subprocess.run returns (or raises) and execute_script builds its result
ExecReturn(h) ==
    /\ handler[h].pc = "exec"
    /\ \E o \in Outcomes(handler[h].calls[1]) :
          LET result == execute_script(o, ScriptTimeout(handler[h].kind))
          IN  handler' = [handler EXCEPT ![h].result = result,
                                         ![h].pc = AfterExec(handler[h].kind, result)]
    /\ UNCHANGED <<vms, vm_logs, metrics, now, resp, backlog, arg, ret>>

\* one statement of an operation: the daemon becomes d, the handler moves on
Statement(h, from, d, to) ==
    /\ handler[h].pc = from
    /\ Becomes(d)
    /\ handler' = [handler EXCEPT ![h].pc = to]
    /\ UNCHANGED <<now, resp, backlog, arg, ret>>

CreateTrack(h) ==
    Statement(h, "create_track",
              track_vm(Daemon, handler[h].vm_id, handler[h].req.body.data, now),
              "create_logs")

CreateLogs(h) ==
    Statement(h, "create_logs",
              store_creation_logs(Daemon, handler[h].vm_id, handler[h].result, now),
              "create_count")

CreateCount(h) ==
    Statement(h, "create_count", count_created(Daemon), "create_current")

CreateCurrent(h) ==
    Statement(h, "create_current", set_current_after_create(Daemon), "respond")

FailCount(h) ==
    Statement(h, "fail_count", count_failed(Daemon), "fail_logs")

FailLogs(h) ==
    Statement(h, "fail_logs",
              store_failure_logs(Daemon, handler[h].vm_id, handler[h].result, now),
              "respond")

\* if vm_id in self.vms: the first statement of the branch
DeleteMark(h) ==
    IF handler[h].vm_id \in DOMAIN vms
    THEN Statement(h, "delete_mark", mark_deleted(Daemon, handler[h].vm_id),
                   "delete_stamp")
    ELSE Statement(h, "delete_mark", Daemon, "delete_logs")

DeleteStamp(h) ==
    Statement(h, "delete_stamp", stamp_deleted(Daemon, handler[h].vm_id, now),
              "delete_count")

DeleteCount(h) ==
    Statement(h, "delete_count", count_deleted(Daemon), "delete_current")

DeleteCurrent(h) ==
    Statement(h, "delete_current", set_current_after_delete(Daemon), "delete_logs")

DeleteLogs(h) ==
    Statement(h, "delete_logs",
              store_deletion_logs(Daemon, handler[h].vm_id, handler[h].result, now),
              "respond")

\* send_json_response: the return value is serialised and sent
Respond(h) ==
    /\ handler[h].pc = "respond"
    /\ \E env \in (IF handler[h].kind \in ScanKinds
                   THEN Environments ELSE {NoEnvironment}) :
          resp' = Response(handler[h].req, handler[h].kind, handler[h].vm_id,
                           handler[h].calls, handler[h].result,
                           ResponseCode(handler[h].kind, handler[h].result),
                           SentBody(handler[h].req, Daemon, handler[h].kind,
                                    handler[h].vm_id, handler[h].result, env, now),
                           handler[h].pre, handler[h].started)
    /\ handler' = [handler EXCEPT ![h].pc = "sent"]
    /\ UNCHANGED <<vms, vm_logs, metrics, now, backlog, arg, ret>>

\* the handler returns and the server closes the connection
Finish(h) ==
    /\ handler[h].pc = "sent"
    /\ handler' = [handler EXCEPT ![h] = IdleHandler]
    /\ resp' = NoResp
    /\ UNCHANGED <<vms, vm_logs, metrics, now, backlog, arg, ret>>

NextServer ==
    \/ Arrive
    \/ \E h \in Handlers : Accept(h)
    \/ \E h \in Handlers : ExecReturn(h)
    \/ \E h \in Handlers : CreateTrack(h)
    \/ \E h \in Handlers : CreateLogs(h)
    \/ \E h \in Handlers : CreateCount(h)
    \/ \E h \in Handlers : CreateCurrent(h)
    \/ \E h \in Handlers : FailCount(h)
    \/ \E h \in Handlers : FailLogs(h)
    \/ \E h \in Handlers : DeleteMark(h)
    \/ \E h \in Handlers : DeleteStamp(h)
    \/ \E h \in Handlers : DeleteCount(h)
    \/ \E h \in Handlers : DeleteCurrent(h)
    \/ \E h \in Handlers : DeleteLogs(h)
    \/ \E h \in Handlers : Respond(h)
    \/ \E h \in Handlers : Finish(h)

SpecServer == Init /\ [][NextServer]_vars

(***************************************************************************)
(* SpecPaths: the daemon of Spec with the clock standing still, sent       *)
(* DELETE requests on longer and shorter paths, with a VM whose identifier *)
(* is a route's last segment.                                              *)
(***************************************************************************)
\* a spec whose vm_id is the word "logs"
SpecLogs == [vm_id |-> T_logs, github_token |-> GithubToken]

PathRequests ==
    { Request("POST", P_vms, JsonBody(SpecT1)),
      Request("POST", P_vms, JsonBody(SpecLogs)),
      Request("DELETE", P_vms_slash \o VmT1, NoBody),
      Request("DELETE", P_vms_slash \o VmT1 \o <<"/">> \o T_logs, NoBody),
      Request("DELETE", P_vms_slash, NoBody) }

NextPaths ==
    \/ \E req \in PathRequests : Serve(req)
    \/ Close

SpecPaths == Init /\ [][NextPaths]_vars

(***************************************************************************)
(* SpecFun: a function of the daemon applied on its own, to inputs wider   *)
(* than the requests of Spec bring about.                                  *)
(***************************************************************************)
\* the key of the JSON pattern with the quote that opens the value
JsonKeyOpen == JsonKey \o <<"\"">>

\* the flag of the flag pattern with a one-character value
FlagValue == FlagName \o <<" ", "x", " ">>

\* a value as long as the JSON pattern asks for
LongValue == Rep("A", JsonTokenMin)

\* a token of the shape of the second pattern
LongToken == LongTokenPrefix \o Rep("Z", LongTokenMin)

\* the pieces the sanitizer's inputs are made of
Pieces == {JsonKeyOpen, FlagValue, <<"\"">>, LongValue, GithubToken, LongToken}

\* the texts of at most n pieces
RECURSIVE TextsOf(_)
TextsOf(n) ==
    IF n = 0 THEN {<<>>}
    ELSE LET shorter == TextsOf(n - 1)
         IN  shorter \cup {t \o piece : t \in shorter, piece \in Pieces}

SanitizeInputs == {[fn |-> "sanitize", text |-> t] : t \in TextsOf(MaxPieces)}

\* a spec whose vm_id is a JSON number
SpecNum == [vm_id |-> NotStr]

\* command lines as create_vm, delete_vm, get_vm_status and list_vms build
\* them
ExecCmds ==
    { <<T_list>>, <<T_status, VmT1>>, <<T_stop, VmT1>>,
      launch_args(SpecT1, VmT1), launch_args(SpecNum, NotStr) }

\* what the script may print
OutTexts == {<<>>, T_started \o GithubToken, FlagValue}

\* str(e) of a spawn failure: the message names the executable or the
\* working directory
ErrTexts == {T_enoent, T_enoent \o <<":", " ", "'", "/">> \o GithubToken \o <<"'">>}

ExecOutcomes ==
    [kind : {"exit"}, returncode : 0..2, stdout : OutTexts, stderr : OutTexts]
    \cup {[kind |-> "timeout", returncode |-> 0, stdout |-> <<>>, stderr |-> <<>>]}
    \cup [kind : {"error"}, returncode : {0}, stdout : {<<>>}, stderr : ErrTexts]

ExecInputs ==
    {[fn |-> "execute", cmd |-> c, outcome |-> o, timeout |-> n] :
        c \in ExecCmds, o \in ExecOutcomes, n \in {DefaultTimeout, CreateTimeout}}

\* the values of DAEMON_PORT the daemon may be started with
T_port == <<"8", "0", "9", "0">>

PortTexts == {T_port, <<"x">>}

\* what main finds when it starts: the port text, whether the script is
\* at FIRECRACKER_SCRIPT, and whether /app can be listed
MainInputs ==
    {[fn |-> "main", port |-> p, script_exists |-> s, app_listable |-> l] :
        p \in PortTexts, s \in BOOLEAN, l \in BOOLEAN}

\* int(text) returns rather than raising ValueError
IntText(text) == text # <<>> /\ \A k \in DOMAIN text : text[k] \in Digit

\* how a run of main ends or goes on: its exit status (0 while it has not
\* exited), the daemon and the server it has constructed, what it logged
\* about /app, and whether serve_forever is running
MainRun(code, daemon, server, listed, serving) ==
    [exit_code |-> code, daemon |-> daemon, server |-> server,
     listed |-> listed, serving |-> serving]

\* A variant of main without the check of the script's path.  C22 tells it
\* from main.
main_unchecked(e) ==
    IF ~IntText(e.port)
    THEN MainRun(1, <<>>, <<>>, FALSE, FALSE)
    ELSE MainRun(0, <<NewDaemon(0)>>, <<DigitsValue(e.port)>>, FALSE, TRUE)

main(e) ==
    IF ~IntText(e.port)
    THEN MainRun(1, <<>>, <<>>, FALSE, FALSE)
    ELSE IF ~e.script_exists
    THEN MainRun(1, <<>>, <<>>, e.app_listable, FALSE)
    ELSE MainRun(0, <<NewDaemon(0)>>, <<DigitsValue(e.port)>>, FALSE, TRUE)

\* Logs queries made one after the other for one VM.
MaxQueries == 2

\* a launch call that succeeded and printed nothing
QuietSuccess == [kind |-> "exit", returncode |-> 0, stdout |-> <<>>, stderr |-> <<>>]

\* self.vm_logs after the VM's history: nothing, a create whose script call
\* ended as o, or a create and then a delete whose script call ended as o
StoredLogs(history, o) ==
    CASE history = "none" -> NewDaemon(0).vm_logs
      [] history = "create" ->
           create_vm(NewDaemon(0), VmT1, SpecT1,
                     execute_script(o, CreateTimeout), 0).vm_logs
      [] history = "delete" ->
           delete_vm(create_vm(NewDaemon(0), VmT1, SpecT1,
                               execute_script(QuietSuccess, CreateTimeout), 0),
                     VmT1, execute_script(o, DefaultTimeout), 0).vm_logs

\* the host as a logs query may find it
LogHosts == [files : FileSystems, ps : ProcessTables]

LogsInputs ==
    {[fn |-> "logs", vm_id |-> VmT1, env |-> e, history |-> h, outcome |-> o,
      stored |-> StoredLogs(h, o)] :
        e \in LogHosts, h \in {"create", "delete"}, o \in ExecOutcomes}
    \cup {[fn |-> "logs", vm_id |-> VmT1, env |-> e, history |-> "none",
           outcome |-> NoOutcome, stored |-> StoredLogs("none", NoOutcome)] :
            e \in LogHosts}

\* Rounds of the dashboard's background updater.
MaxRefreshes == 2

\* how the daemon answers the dashboard: with 200, with another status, or
\* not at all (requests.get raises)
Answers == {"ok", "non200", "raises"}

UpdateInputs ==
    {[fn |-> "update_cache", health |-> h, vms |-> v, metrics |-> m] :
        h \in Answers, v \in Answers, m \in Answers}

\* the requests get_daemon_status sends: if the health check raises, the
\* except branch is taken and the VM list is not asked for
get_daemon_status(net) ==
    <<Request("GET", P_health, NoBody)>>
        \o (IF net.health = "raises" THEN <<>>
            ELSE <<Request("GET", P_vms, NoBody)>>)

\* A variant of the dashboard's get_daemon_metrics that posts to /metrics.
\* C30 tells it from dashboard_get_daemon_metrics.
dashboard_get_daemon_metrics_posting(net) == <<Request("POST", P_metrics, NoBody)>>

\* the requests the dashboard's get_daemon_metrics sends
dashboard_get_daemon_metrics(net) == <<Request("GET", P_metrics, NoBody)>>

\* the requests one update_cache sends to the daemon; get_daemon_logs,
\* get_arc_logs and get_node_info in between run kubectl and send none
update_cache(net) == get_daemon_status(net) \o dashboard_get_daemon_metrics(net)

\* the placeholder the dashboard writes over a spec's github_token
T_hidden == <<"[", "H", "I", "D", "D", "E", "N", "]">>

\* a spec without a github_token
SpecBare == [vm_id |-> VmT1, github_url |-> UrlX]

\* daemons the dashboard may be polling: with no VM, with t1 created with a
\* token, with an anonymous VM as well, and with t1 created without a token
PolledDaemons ==
    LET ok == execute_script(QuietSuccess, CreateTimeout)
        d1 == create_vm(NewDaemon(0), VmT1, SpecT1, ok, 0)
    IN  { NewDaemon(0), d1,
          create_vm(d1, GenId(0), SpecAnon, ok, 0),
          create_vm(NewDaemon(0), VmT1, SpecBare, ok, 0) }

\* what get_daemon_status meets: how /health and /vms are answered, and
\* the JSON document the daemon's list_vms sends
StatusInputs ==
    {[fn |-> "daemon_status", health |-> h, vms |-> v,
      body |-> ResponseBody(d, "list", <<>>, execute_script(o, DefaultTimeout),
                            NoEnvironment, 0)] :
        h \in Answers, v \in Answers, d \in PolledDaemons,
        o \in Outcomes(<<T_list>>)}

\* A variant of hide_tokens that runs the sanitizer's patterns over the
\* field instead of replacing it.  C35 tells it from hide_tokens.
hide_tokens_by_pattern(vms_data) ==
    IF "vms" \notin DOMAIN vms_data THEN vms_data
    ELSE [vms_data EXCEPT !.vms =
            [i \in DOMAIN @ |->
                IF "spec" \in DOMAIN @[i] /\ "github_token" \in DOMAIN @[i].spec
                THEN [@[i] EXCEPT !.spec.github_token = sanitize_output(@)]
                ELSE @[i]]]

\* get_daemon_status: vm_info["spec"]["github_token"] = "[HIDDEN]" for every
\* VM of the document whose spec has the field
hide_tokens(vms_data) ==
    IF "vms" \notin DOMAIN vms_data THEN vms_data
    ELSE [vms_data EXCEPT !.vms =
            [i \in DOMAIN @ |->
                IF "spec" \in DOMAIN @[i] /\ "github_token" \in DOMAIN @[i].spec
                THEN [@[i] EXCEPT !.spec.github_token = T_hidden]
                ELSE @[i]]]

\* the dict get_daemon_status returns (its timestamp left out): the except
\* branch if a request raised, else the health document and the VM
\* document, each replaced by a default if the answer was not 200
get_daemon_status_result(net) ==
    IF net.health = "raises" \/ net.vms = "raises"
    THEN [health |-> [status |-> "error"], vms |-> [vms |-> EmptyDict]]
    ELSE [health |-> IF net.health = "ok"
                     THEN ResponseBody(NewDaemon(0), "health", <<>>, NoResult,
                                       NoEnvironment, 0)
                     ELSE [status |-> "unhealthy"],
          vms |-> hide_tokens(IF net.vms = "ok" THEN net.body
                              ELSE [vms |-> EmptyDict])]

FunInputs ==
    SanitizeInputs \cup ExecInputs \cup MainInputs \cup LogsInputs \cup UpdateInputs
        \cup StatusInputs

InitFun ==
    /\ vms = NewDaemon(0).vms
    /\ vm_logs = NewDaemon(0).vm_logs
    /\ metrics = NewDaemon(0).metrics
    /\ now = 0
    /\ resp = NoResp
    /\ backlog = 0
    /\ handler = [h \in Handlers |-> IdleHandler]
    /\ arg \in FunInputs
    /\ ret = <<>>

\* sanitize_output(text), then sanitize_output of what it returned
Sanitize ==
    /\ arg.fn = "sanitize"
    /\ Len(ret) < MaxPasses
    /\ ret' = Append(ret, sanitize_output(IF ret = <<>> THEN arg.text
                                          ELSE ret[Len(ret)]))
    /\ UNCHANGED <<vms, vm_logs, metrics, now, resp, backlog, handler, arg>>

\* execute_script(args, timeout)
Execute ==
    /\ arg.fn = "execute"
    /\ ret = <<>>
    /\ ret' = <<call_execute_script(arg.cmd, arg.outcome, arg.timeout)>>
    /\ UNCHANGED <<vms, vm_logs, metrics, now, resp, backlog, handler, arg>>

\* main()
Main ==
    /\ arg.fn = "main"
    /\ ret = <<>>
    /\ ret' = <<main(arg)>>
    /\ UNCHANGED <<vms, vm_logs, metrics, now, resp, backlog, handler, arg>>

\* get_vm_logs(vm_id), again and again on an unchanged host; the clock
\* reads the number of earlier queries
GetLogs ==
    /\ arg.fn = "logs"
    /\ Len(ret) < MaxQueries
    /\ ret' = Append(ret, get_vm_logs(arg.stored, arg.vm_id, arg.env, Len(ret)))
    /\ UNCHANGED <<vms, vm_logs, metrics, now, resp, backlog, handler, arg>>

\* background_updater: one more round of update_cache; ret collects the
\* requests sent to the daemon
BackgroundUpdater ==
    /\ arg.fn = "update_cache"
    /\ Len(ret) < MaxRefreshes * Len(update_cache(arg))
    /\ ret' = ret \o update_cache(arg)
    /\ UNCHANGED <<vms, vm_logs, metrics, now, resp, backlog, handler, arg>>

\* update_cache: cache['daemon_status'] = get_daemon_status()
UpdateDaemonStatus ==
    /\ arg.fn = "daemon_status"
    /\ ret = <<>>
    /\ ret' = <<get_daemon_status_result(arg)>>
    /\ UNCHANGED <<vms, vm_logs, metrics, now, resp, backlog, handler, arg>>

NextFun ==
    \/ Sanitize
    \/ Execute
    \/ Main
    \/ GetLogs
    \/ BackgroundUpdater
    \/ UpdateDaemonStatus

SpecFun == InitFun /\ [][NextFun]_vars

(***************************************************************************)
(* Properties.  Under Spec, a state with a response shows the daemon right *)
(* after the request: resp.pre is the daemon right before it.              *)
(***************************************************************************)
CreateSucceeded == resp.kind = "create" /\ resp.result.success

CreateFailed == resp.kind = "create" /\ ~resp.result.success

\* what get_vm_status reports as the status of vm_id
ReportedStatus(reg, vm_id) == Get(Get(reg, vm_id, EmptyDict), "status", "unknown")

\* C1: after a create whose script call succeeded, the registry has the
\* record of the request's identifier as its only new key, the record's
\* status is "running", and total_vms_created is one more than before;
\* whatever the identifier's record was before.
C1_CreateSuccess ==
    CreateSucceeded =>
        /\ DOMAIN vms = DOMAIN resp.pre.vms \cup {resp.vm_id}
        /\ vms[resp.vm_id].status = "running"
        /\ metrics.total_vms_created = resp.pre.metrics.total_vms_created + 1

\* a create has succeeded for an identifier whose record was "deleted"
C1_Witness ==
    /\ CreateSucceeded
    /\ ReportedStatus(resp.pre.vms, resp.vm_id) = "deleted"

\* C2: after a create whose script call failed (nonzero exit, timeout or
\* spawn error), total_vms_created is what it was and failed_creations is
\* one more than before.
C2_CreateFailure ==
    CreateFailed =>
        /\ metrics.total_vms_created = resp.pre.metrics.total_vms_created
        /\ metrics.failed_creations = resp.pre.metrics.failed_creations + 1

\* a create has failed because the script could not be spawned, after an
\* earlier create had succeeded
C2_Witness ==
    /\ CreateFailed
    /\ resp.result.stderr = T_enoent
    /\ resp.pre.metrics.total_vms_created > 0

\* C3: after a create whose script call failed, the registry has a record
\* of the identifier with status "failed", which is what a status query
\* reports.
C3_FailedRecord ==
    CreateFailed =>
        /\ resp.vm_id \in DOMAIN vms
        /\ ReportedStatus(vms, resp.vm_id) = "failed"

\* a status query answers "unknown" for an identifier whose last create
\* failed
C3_Witness ==
    /\ resp.kind = "status"
    /\ Get(Get(vm_logs, resp.vm_id, EmptyDict), "status", "") = "failed"
    /\ resp.body.status = "unknown"

\* C4: a delete of an identifier whose record is "running" sets the status
\* to "deleted", sets deleted_at, and adds one to total_vms_deleted, whether
\* the stop call succeeded or failed.
C4_DeleteRunning ==
    resp.kind = "delete" /\ ReportedStatus(resp.pre.vms, resp.vm_id) = "running" =>
        /\ vms[resp.vm_id].status = "deleted"
        /\ "deleted_at" \in DOMAIN vms[resp.vm_id]
        /\ vms[resp.vm_id].deleted_at = resp.started
        /\ metrics.total_vms_deleted = resp.pre.metrics.total_vms_deleted + 1

\* a running VM has been deleted although the stop call failed
C4_Witness ==
    /\ resp.kind = "delete"
    /\ ReportedStatus(resp.pre.vms, resp.vm_id) = "running"
    /\ ~resp.result.success

\* C5: a delete of an identifier without a record calls the script once,
\* with the stop verb, and leaves the registry and the four counters as
\* they were.
C5_DeleteUnknown ==
    resp.kind = "delete" /\ resp.vm_id \notin DOMAIN resp.pre.vms =>
        /\ resp.calls = << <<T_stop, resp.vm_id>> >>
        /\ vms = resp.pre.vms
        /\ metrics = resp.pre.metrics

\* an identifier without a record has been deleted while the registry
\* holds another VM
C5_Witness ==
    /\ resp.kind = "delete"
    /\ resp.vm_id \notin DOMAIN resp.pre.vms
    /\ resp.pre.vms # EmptyDict

\* C6: current_vms is the number of records whose status is not "deleted".
C6_CurrentCount == metrics.current_vms = Cardinality(NotDeleted(vms))

\* GET /metrics reports a current_vms that is not the number of records
\* that are not deleted
C6_Witness ==
    /\ resp.kind = "daemon_metrics"
    /\ resp.body.current_vms # Cardinality(NotDeleted(vms))

\* the step is a create of identifier i
CreateOf(i) == resp' # resp /\ resp'.kind = "create" /\ resp'.vm_id = i

\* C7: no step removes a key from the registry, and a record that is
\* "deleted" stays "deleted" unless the identifier is created again.
C7_NeverRemoved ==
    [][\A i \in DOMAIN vms :
          /\ i \in DOMAIN vms'
          /\ (vms[i].status = "deleted" /\ ~CreateOf(i) => vms'[i].status = "deleted")]_vars

\* GET /vms shows a VM that was deleted before
C7_Witness ==
    /\ resp.kind = "list"
    /\ \E i \in DOMAIN resp.pre.vms :
          resp.pre.vms[i].status = "deleted" /\ resp.body.vms[i].status = "deleted"

\* the credentials of the creation specs
Credentials == {GithubToken, PlainSecret}

LogTextKeys ==
    {"creation_log", "creation_errors", "deletion_log", "deletion_errors",
     "startup_log", "firecracker_log", "vm_log", "console_log"}

\* the credential and output texts a response body of the kind carries
BodyTexts(kind, body) ==
    CASE kind = "list" ->
           {body.host_status, body.details.stdout, body.details.stderr}
           \cup {Get(body.vms[i].spec, "github_token", <<>>) : i \in DOMAIN body.vms}
      [] kind = "status" ->
           {body.details,
            Get(Get(body.vm_info, "spec", EmptyDict), "github_token", <<>>)}
      [] kind = "logs" -> {Get(body.logs, k, <<>>) : k \in LogTextKeys}
      [] kind = "create" ->
           {body.message, body.details.stdout, body.details.stderr}
      [] kind = "delete" -> {body.message}
      [] OTHER -> {}

\* C8: no response body carries a credential of a creation spec.
C8_NoRawToken ==
    \A text \in BodyTexts(resp.kind, resp.body), c \in Credentials :
        ~Contains(text, c)

\* GET /vms/{id} returns the record with the credential the VM was created
\* with
C8_Witness ==
    /\ resp.kind = "status"
    /\ "spec" \in DOMAIN resp.body.vm_info
    /\ resp.body.vm_info.spec.github_token = GithubToken

\* the operations that read the registry or the counters
ReadKinds == {"list", "status", "daemon_metrics"}

\* C9: when a list, status or metrics request reads the registry and the
\* counters, no create or delete is between its first and its last update
\* of them.
C9_AtomicForReaders ==
    \A h \in Handlers :
        handler[h].pc = "respond" /\ handler[h].kind \in ReadKinds =>
            \A g \in Handlers : handler[g].pc \notin MidUpdate

\* a request is waiting while a create or delete is between its updates
C9_Witness ==
    /\ backlog > 0
    /\ \E h \in Handlers : handler[h].pc \in MidUpdate

\* C10: while a handler waits for the script, a queued request can be
\* taken up.
C10_NotBlocked ==
    (\E h \in Handlers : handler[h].pc = "exec") /\ backlog > 0 =>
        ENABLED (\E g \in Handlers : Accept(g))

\* a request is queued while a create waits for the script
C10_Witness ==
    /\ backlog > 0
    /\ \E h \in Handlers : handler[h].pc = "exec" /\ handler[h].kind = "create"

\* the stderr execute_script returns for a create that timed out
CreateTimedOut ==
    /\ CreateFailed
    /\ resp.result.stderr = T_timed_out \o ToDec(CreateTimeout) \o T_seconds

\* C11: after a create whose script call timed out, the registry has no
\* record with status "running" for the identifier.
C11_NoRunningAfterTimeout ==
    CreateTimedOut => ReportedStatus(vms, resp.vm_id) # "running"

\* a create has timed out for an identifier whose record was "running",
\* and the record is still "running"
C11_Witness ==
    /\ CreateTimedOut
    /\ ReportedStatus(resp.pre.vms, resp.vm_id) = "running"
    /\ ReportedStatus(vms, resp.vm_id) = "running"

\* C12: sanitize_output of sanitize_output(x) is sanitize_output(x).
C12_Idempotent ==
    arg.fn = "sanitize" /\ Len(ret) = 2 => ret[2] = ret[1]

\* the flag pattern lengthens a JSON value that was too short for the JSON
\* pattern, and the second pass replaces what the first one left
C12_Witness ==
    /\ arg.fn = "sanitize"
    /\ arg.text = JsonKeyOpen \o FlagValue \o <<"\"">>
    /\ Len(ret) = 2
    /\ ret[1] = JsonKeyOpen \o FlagHidden \o <<" ", "\"">>
    /\ ret[2] = JsonHidden

\* C13: no substring of the input that matches one of the four patterns
\* occurs in the output of sanitize_output.
C13_NoMatchLeft ==
    arg.fn = "sanitize" /\ Len(ret) >= 1 =>
        \A pat \in 1..4, i \in 1..Len(arg.text) :
            MatchLen(pat, arg.text, i) > 0 =>
                ~Contains(ret[1], SubSeq(arg.text, i, i + MatchLen(pat, arg.text, i) - 1))

\* two JSON fields share a quote: the second one is in the output as it
\* was in the input
C13_Witness ==
    /\ arg.fn = "sanitize"
    /\ arg.text = JsonKeyOpen \o LongValue \o JsonKeyOpen \o LongValue \o <<"\"">>
    /\ Len(ret) >= 1
    /\ Contains(ret[1], JsonKeyOpen \o LongValue \o <<"\"">>)

\* the stored log bundle of the identifier the response is about
Bundle == Get(vm_logs, resp.vm_id, EmptyDict)

\* the bundle is the one a successful create stores: no create of the
\* identifier has come after it
CreatedLast(b) == "created_at" \in DOMAIN b /\ "status" \notin DOMAIN b

\* a delete of the identifier has come after the last create
DeletedSince(b) == "deleted_at" \in DOMAIN b

\* C14: a status query after a successful create reports "running"; the
\* response to a following delete has the success of the stop call; a
\* status query after the delete reports "deleted", whether the stop call
\* succeeded or failed.
C14_Lifecycle ==
    /\ resp.kind = "status" /\ CreatedLast(Bundle) /\ ~DeletedSince(Bundle) =>
           resp.body.status = "running"
    /\ resp.kind = "delete" => resp.body.success = resp.result.success
    /\ resp.kind = "status" /\ CreatedLast(Bundle) /\ DeletedSince(Bundle) =>
           resp.body.status = "deleted"

\* a status query reports "deleted" for a VM that was created and then
\* deleted with a failing stop call
C14_Witness ==
    /\ resp.kind = "status"
    /\ CreatedLast(Bundle) /\ DeletedSince(Bundle)
    /\ Bundle["deletion_errors"] # <<>>
    /\ resp.body.status = "deleted"

\* the daemon is as it was before the request
Untouched == Daemon = resp.pre

IdPath(path, suffix) ==
    LET id == SubSeq(path, Len(P_vms_slash) + 1, Len(path) - Len(suffix))
    IN  /\ StartsWith(path, 1, P_vms_slash)
        /\ Len(path) > Len(P_vms_slash) + Len(suffix)
        /\ StartsWith(path, Len(path) - Len(suffix) + 1, suffix)
        /\ \A k \in DOMAIN id : id[k] # "/"

\* the routes of the API
DefinedRoute(method, path) ==
    \/ method = "GET" /\ path \in {P_health, P_vms, P_metrics}
    \/ method = "POST" /\ path = P_vms
    \/ method \in {"GET", "DELETE"} /\ IdPath(path, <<>>)
    \/ method = "GET" /\ IdPath(path, <<"/">> \o T_logs)
    \/ method = "GET" /\ IdPath(path, <<"/">> \o T_metrics)

\* C16: a request that matches no route is answered 404, with no script
\* call and no change of state.
C16_UnknownIs404 ==
    resp.kind # "none" /\ ~DefinedRoute(resp.req.method, resp.req.path) =>
        resp.code = 404 /\ resp.calls = <<>> /\ Untouched

\* a POST to an unknown path with a body that is not JSON is answered 400
C16_Witness ==
    /\ resp.req = Request("POST", P_nope, BadJson)
    /\ resp.code = 400

\* the keys of a bundle that holds nothing but the fresh collection
CollectedKeys ==
    {"startup_log", "firecracker_log", "vm_log", "console_log", "collected_at", "vm_id"}

\* C17: for an identifier without a record, a status query answers 200
\* with status "unknown" and an empty vm_info, a metrics query answers 200
\* with status "unknown" and uptime 0, and a logs query answers 200 with
\* success true and, if nothing is stored for the identifier, a bundle that
\* holds the fresh collection only.
C17_UnknownIdReads ==
    resp.vm_id \notin DOMAIN resp.pre.vms =>
        /\ resp.kind = "status" =>
               /\ resp.code = 200
               /\ resp.body.status = "unknown"
               /\ resp.body.vm_info = EmptyDict
        /\ resp.kind = "vm_metrics" =>
               /\ resp.code = 200
               /\ resp.body.success
               /\ resp.body.metrics.status = "unknown"
               /\ resp.body.metrics.uptime = 0
        /\ resp.kind = "logs" =>
               /\ resp.code = 200
               /\ resp.body.success
               /\ (resp.vm_id \notin DOMAIN resp.pre.vm_logs =>
                       DOMAIN resp.body.logs = CollectedKeys)

\* per-VM metrics have been asked for an identifier without a record while
\* the registry holds another VM and the clock has advanced
C17_Witness ==
    /\ resp.kind = "vm_metrics"
    /\ resp.vm_id \notin DOMAIN resp.pre.vms
    /\ resp.pre.vms # EmptyDict
    /\ resp.started > 0

\* execute_script has been called and ret[1] is what came of it
Executed == arg.fn = "execute" /\ ret # <<>>

\* C18: execute_script does not raise; for a timeout it returns success
\* false, return code -1 and the timeout message; for a spawn failure or
\* another exception success false, return code -1 and the exception's
\* text; otherwise the exit code, and success exactly when it is 0.
C18_NeverRaises ==
    Executed =>
        LET o == arg.outcome
            r == ret[1].result
        IN  /\ ~ret[1].raised
            /\ o.kind = "timeout" =>
                   /\ ~r.success /\ r.returncode = -1
                   /\ r.stderr = T_timed_out \o ToDec(arg.timeout) \o T_seconds
            /\ o.kind = "error" =>
                   ~r.success /\ r.returncode = -1 /\ r.stderr = o.stderr
            /\ o.kind = "exit" =>
                   r.returncode = o.returncode /\ r.success = (o.returncode = 0)

\* execute_script has raised for a command line with an element that is
\* not a string
C18_Witness ==
    /\ Executed
    /\ \E k \in DOMAIN arg.cmd : ~IsStr(arg.cmd[k])
    /\ ret[1].raised

\* the texts execute_script has at hand for stdout and stderr
RawOutput(o, timeout) ==
    CASE o.kind = "exit" -> [stdout |-> o.stdout, stderr |-> o.stderr]
      [] o.kind = "timeout" ->
           [stdout |-> <<>>, stderr |-> T_timed_out \o ToDec(timeout) \o T_seconds]
      [] o.kind = "error" -> [stdout |-> <<>>, stderr |-> o.stderr]

\* C19: the stdout and stderr execute_script returns are sanitize_output
\* of the texts it has at hand, on each of its three return paths.
C19_OutputSanitized ==
    Executed /\ ~ret[1].raised =>
        /\ ret[1].result.stdout = sanitize_output(RawOutput(arg.outcome, arg.timeout).stdout)
        /\ ret[1].result.stderr = sanitize_output(RawOutput(arg.outcome, arg.timeout).stderr)

\* execute_script has returned the text of an exception with a token in it
C19_Witness ==
    /\ Executed /\ ~ret[1].raised
    /\ arg.outcome.kind = "error"
    /\ Contains(ret[1].result.stderr, GithubToken)

\* C20: the text of a 500 response is sanitize_output of the exception's
\* text.
C20_ErrorSanitized ==
    resp.code = 500 => resp.body.error = sanitize_output(ServerError(resp.req))

\* a 500 response carries a token the sanitizer would have hidden
C20_Witness ==
    /\ resp.code = 500
    /\ Contains(resp.body.error, GithubToken)

\* the operations that answer from the registry, the bundles and the
\* counters
RegistryReads == {"status", "list", "daemon_metrics", "vm_metrics", "logs"}

\* C21: a status, list, daemon-metrics, per-VM metrics or logs request
\* leaves the registry, the stored log bundles and the counters as they
\* were, whatever the script, the file system and the process table answer.
C21_ReadsChangeNothing ==
    resp.kind \in RegistryReads =>
        /\ vms = resp.pre.vms
        /\ vm_logs = resp.pre.vm_logs
        /\ metrics = resp.pre.metrics

\* a status query whose script call failed for a VM the registry has as
\* running
C21_Witness ==
    /\ resp.kind = "status"
    /\ ~resp.result.success
    /\ resp.vm_id \in DOMAIN vms
    /\ vms[resp.vm_id].status = "running"

\* C22: when the script is not at its path as main starts, main exits with
\* status 1 and has constructed neither the daemon (the registry) nor the
\* HTTP server, and serve_forever is not running.
C22_MissingScriptExits ==
    arg.fn = "main" /\ ret # <<>> /\ ~arg.script_exists =>
        /\ ret[1].exit_code = 1
        /\ ret[1].daemon = <<>>
        /\ ret[1].server = <<>>
        /\ ~ret[1].serving

\* main has run with a port that parses, without the script, and could
\* not list /app either
C22_Witness ==
    /\ arg.fn = "main" /\ ret # <<>>
    /\ IntText(arg.port) /\ ~arg.script_exists /\ ~arg.app_listable
    /\ ret[1].exit_code = 1

\* the request's identifier had a record with status "deleted"
WasDeleted ==
    /\ resp.vm_id \in DOMAIN resp.pre.vms
    /\ resp.pre.vms[resp.vm_id].status = "deleted"

\* C23: a create that succeeds for an identifier whose record is "deleted"
\* replaces the whole record: status "running", the request's spec, the
\* time of this create as creation timestamp, no deleted_at, and
\* total_vms_created is one more than before.
C23_RecreateReplaces ==
    CreateSucceeded /\ WasDeleted =>
        /\ vms[resp.vm_id] = [created |-> resp.started, status |-> "running",
                              spec |-> resp.req.body.data,
                              networking |-> "bridge-br0"]
        /\ "deleted_at" \notin DOMAIN vms[resp.vm_id]
        /\ metrics.total_vms_created = resp.pre.metrics.total_vms_created + 1

\* a VM deleted at one time has been created again at a later time
C23_Witness ==
    /\ CreateSucceeded /\ WasDeleted
    /\ "deleted_at" \in DOMAIN resp.pre.vms[resp.vm_id]
    /\ resp.pre.vms[resp.vm_id].created < resp.started
    /\ vms[resp.vm_id].created = resp.started

\* the categories collect_vm_logs files text under
CollectedTexts == {"startup_log", "firecracker_log", "vm_log", "console_log"}

\* the text collect_vm_logs has at hand for a category before it sanitizes
RawCollected(vm_id, env, cat) ==
    DirsText(LogDirs, env.files, vm_id, cat)
        \o (IF cat = "vm_log" THEN PsText(env.ps, vm_id) ELSE <<>>)

StoredRaw(history, o) ==
    CASE history = "none" -> EmptyDict
      [] history = "create" ->
           [creation_log |-> RawOutput(o, CreateTimeout).stdout,
            creation_errors |-> RawOutput(o, CreateTimeout).stderr]
      [] history = "delete" ->
           [creation_log |-> <<>>, creation_errors |-> <<>>,
            deletion_log |-> RawOutput(o, DefaultTimeout).stdout,
            deletion_errors |-> RawOutput(o, DefaultTimeout).stderr]

\* the fields of the bundle a logs query returned agree with the fresh
\* collection where it has them and with the stored bundle elsewhere
MergedFreshFirst(b, stored, fresh) ==
    /\ \A k \in DOMAIN fresh : b[k] = fresh[k]
    /\ \A k \in DOMAIN stored \ (DOMAIN fresh \cup {"vm_id"}) : b[k] = stored[k]

\* C25: the bundle get_vm_logs returns has the freshly collected value for
\* every field of the fresh collection, the stored value for every other
\* stored field, and each of its texts is sanitize_output of the text the
\* daemon had at hand for it.
C25_MergedAndSanitized ==
    arg.fn = "logs" =>
        \A n \in DOMAIN ret :
            /\ MergedFreshFirst(ret[n], Get(arg.stored, arg.vm_id, EmptyDict),
                                collect_vm_logs(arg.vm_id, arg.env, n - 1))
            /\ \A cat \in CollectedTexts :
                   ret[n][cat] = sanitize_output(RawCollected(arg.vm_id, arg.env, cat))
            /\ \A k \in DOMAIN StoredRaw(arg.history, arg.outcome) :
                   ret[n][k] = sanitize_output(StoredRaw(arg.history, arg.outcome)[k])

\* a logs query has returned the creation_errors of a launch that could not
\* be spawned, with a token in it
C25_Witness ==
    /\ arg.fn = "logs" /\ ret # <<>>
    /\ arg.history = "create" /\ arg.outcome.kind = "error"
    /\ Contains(ret[1].creation_errors, GithubToken)

\* C26: once a record has a created or a deleted_at timestamp, no later
\* create or delete for its identifier changes that timestamp.
C26_StampedOnce ==
    resp.kind \in {"create", "delete"} /\ resp.vm_id \in DOMAIN resp.pre.vms =>
        /\ vms[resp.vm_id].created = resp.pre.vms[resp.vm_id].created
        /\ "deleted_at" \in DOMAIN resp.pre.vms[resp.vm_id] =>
               /\ "deleted_at" \in DOMAIN vms[resp.vm_id]
               /\ vms[resp.vm_id].deleted_at = resp.pre.vms[resp.vm_id].deleted_at

\* a delete for a VM that was deleted before has moved its deleted_at
C26_Witness ==
    /\ resp.kind = "delete"
    /\ resp.vm_id \in DOMAIN resp.pre.vms
    /\ "deleted_at" \in DOMAIN resp.pre.vms[resp.vm_id]
    /\ resp.pre.vms[resp.vm_id].deleted_at < vms[resp.vm_id].deleted_at

\* the three running counters
Counters == {"total_vms_created", "total_vms_deleted", "failed_creations"}

\* C27: in every step each of total_vms_created, total_vms_deleted and
\* failed_creations stays or grows by one; total_vms_created and
\* failed_creations move only in a step that answers a create, never both;
\* total_vms_deleted moves only in a step that answers a delete.
C27_CountersStepByOne ==
    [][/\ \A c \in Counters : metrics'[c] \in {metrics[c], metrics[c] + 1}
       /\ (metrics'.total_vms_created # metrics.total_vms_created
           \/ metrics'.failed_creations # metrics.failed_creations) =>
              /\ resp'.kind = "create" /\ resp.kind = "none"
              /\ metrics'.total_vms_deleted = metrics.total_vms_deleted
              /\ (metrics'.total_vms_created = metrics.total_vms_created
                  \/ metrics'.failed_creations = metrics.failed_creations)
       /\ metrics'.total_vms_deleted # metrics.total_vms_deleted =>
              resp'.kind = "delete" /\ resp.kind = "none"]_vars

\* each of the three counters has moved
C27_Witness ==
    /\ metrics.total_vms_created = 1
    /\ metrics.failed_creations = 1
    /\ metrics.total_vms_deleted = 1

\* the create request named no identifier
Anonymous == resp.kind = "create" /\ "vm_id" \notin DOMAIN resp.req.body.data

\* C28: the identifier generated for a create that names none is new: a
\* create that succeeds with a generated identifier does not replace a
\* record the registry already has.
C28_GeneratedIdIsNew ==
    CreateSucceeded /\ Anonymous => resp.vm_id \notin DOMAIN resp.pre.vms

\* a create without an identifier has replaced the record of an earlier
\* create of the same second
C28_Witness ==
    /\ CreateSucceeded /\ Anonymous
    /\ resp.vm_id = GenId(resp.started)
    /\ resp.vm_id \in DOMAIN resp.pre.vms
    /\ resp.pre.vms[resp.vm_id].created = resp.started
    /\ resp.pre.vms[resp.vm_id].status = "running"

\* the identifier the request names: in its path, or for a create in its
\* body, where the daemon generates one if the body names none
RequestedId ==
    IF resp.kind = "create"
    THEN Get(resp.req.body.data, "vm_id", GenId(resp.started))
    ELSE SubSeq(resp.req.path, Len(P_vms_slash) + 1, Len(resp.req.path))

\* C29: a create makes one script call, launch with the identifier as its
\* first argument and with the host-bridge flag; a delete one call, stop
\* with the identifier; a status query one call, status with the
\* identifier; a list one call, list; health, logs and per-VM metrics
\* requests make no script call.
C29_OneCallWithVerb ==
    /\ resp.kind = "create" =>
           /\ Len(resp.calls) = 1
           /\ resp.calls[1][1] = T_launch
           /\ resp.calls[1][2] = RequestedId
           /\ \E k \in 3..Len(resp.calls[1]) : resp.calls[1][k] = T_use_host_bridge
    /\ resp.kind = "delete" => resp.calls = << <<T_stop, RequestedId>> >>
    /\ resp.kind = "status" => resp.calls = << <<T_status, RequestedId>> >>
    /\ resp.kind = "list" => resp.calls = << <<T_list>> >>
    /\ resp.kind \in {"health", "logs", "vm_metrics"} => resp.calls = <<>>

\* a create without an identifier has called launch with the generated one,
\* and the call failed
C29_Witness ==
    /\ CreateFailed /\ Anonymous
    /\ resp.calls[1][1] = T_launch
    /\ resp.calls[1][2] = GenId(resp.started)

\* C30: every request the dashboard's background updater sends to the
\* daemon is a GET of /health, /vms or /metrics, which the daemon routes to
\* its health, list or daemon-metrics operation and which leaves the
\* daemon as it is.
C30_UpdaterOnlyReads ==
    arg.fn = "update_cache" =>
        \A n \in DOMAIN ret :
            /\ ret[n].method = "GET"
            /\ ret[n].path \in {P_health, P_vms, P_metrics}
            /\ Route(ret[n]).kind \in {"health", "list", "daemon_metrics"}
            /\ \A o \in Outcomes(<<T_list>>) :
                   Apply(Daemon, Route(ret[n]).kind, <<>>, EmptyDict,
                         execute_script(o, DefaultTimeout), now) = Daemon

\* the updater has gone through a round in which the health check raised:
\* the VM list was not asked for, the metrics were
C30_Witness ==
    /\ arg.fn = "update_cache"
    /\ arg.health = "raises"
    /\ Len(ret) >= 2
    /\ ret[1].path = P_health
    /\ ret[2].path = P_metrics

\* C31: total_vms_deleted is at most total_vms_created.
C31_DeletedAtMostCreated ==
    metrics.total_vms_deleted <= metrics.total_vms_created

\* one VM was created and its identifier deleted twice
C31_Witness ==
    /\ resp.kind = "delete"
    /\ resp.vm_id \in DOMAIN resp.pre.vms
    /\ resp.pre.vms[resp.vm_id].status = "deleted"
    /\ metrics.total_vms_created = 1
    /\ metrics.total_vms_deleted = 2

\* C32: a request leaves the record of every identifier other than its own
\* as it was; a failed create leaves the whole registry as it was; a
\* record's status becomes "running" only by a successful create of its
\* identifier and "deleted" only by a delete of its identifier, and never
\* anything else.
C32_RecordTransitions ==
    resp.kind # "none" =>
        /\ DOMAIN resp.pre.vms \subseteq DOMAIN vms
        /\ \A i \in DOMAIN vms \ {resp.vm_id} :
               i \in DOMAIN resp.pre.vms /\ vms[i] = resp.pre.vms[i]
        /\ CreateFailed => vms = resp.pre.vms
        /\ \A i \in DOMAIN vms :
               ReportedStatus(vms, i) # ReportedStatus(resp.pre.vms, i) =>
                   /\ i = resp.vm_id
                   /\ \/ vms[i].status = "running" /\ CreateSucceeded
                      \/ vms[i].status = "deleted" /\ resp.kind = "delete"

\* a create has failed for an identifier whose VM is running, while the
\* registry has another VM as well
C32_Witness ==
    /\ CreateFailed
    /\ resp.vm_id \in DOMAIN resp.pre.vms
    /\ vms[resp.vm_id].status = "running"
    /\ Cardinality(DOMAIN vms) = 2

\* C33: a DELETE request changes the status of a record only if its path
\* is /vms/ followed by one identifier without a slash, and then only the
\* status of that identifier's record.
C33_DeleteExactPath ==
    resp.req.method = "DELETE" =>
        \A i \in DOMAIN vms :
            ReportedStatus(vms, i) # ReportedStatus(resp.pre.vms, i) =>
                /\ IdPath(resp.req.path, <<>>)
                /\ resp.req.path = P_vms_slash \o i

\* DELETE /vms/t1/logs has marked the VM "logs" as deleted and left t1
\* running
C33_Witness ==
    /\ resp.req.method = "DELETE"
    /\ resp.req.path = P_vms_slash \o VmT1 \o <<"/">> \o T_logs
    /\ T_logs \in DOMAIN resp.pre.vms
    /\ resp.pre.vms[T_logs].status = "running"
    /\ vms[T_logs].status = "deleted"
    /\ VmT1 \in DOMAIN vms
    /\ vms[VmT1].status = "running"

\* C34: every identifier with a registry record has a stored log bundle,
\* and the bundle of an identifier whose record is "running" does not carry
\* status "failed".
C34_BundleMatchesRecord ==
    \A i \in DOMAIN vms :
        /\ i \in DOMAIN vm_logs
        /\ vms[i].status = "running" =>
               Get(vm_logs[i], "status", "none") # "failed"

\* a create failed for an identifier whose VM is running: the record still
\* says "running", the bundle says "failed"
C34_Witness ==
    /\ CreateFailed
    /\ resp.vm_id \in DOMAIN vms
    /\ vms[resp.vm_id].status = "running"
    /\ resp.vm_id \in DOMAIN vm_logs
    /\ Get(vm_logs[resp.vm_id], "status", "none") = "failed"
    /\ "creation_log" \in DOMAIN resp.pre.vm_logs[resp.vm_id]

\* C35: in the daemon status the dashboard caches, every VM whose spec has
\* a github_token field has the placeholder in it; and the cached VM map is
\* empty if a request raised or /vms was not answered with 200.
C35_CachedTokensHidden ==
    arg.fn = "daemon_status" /\ ret # <<>> =>
        LET cached == ret[1].vms.vms
        IN  /\ \A i \in DOMAIN cached :
                   "spec" \in DOMAIN cached[i]
                       /\ "github_token" \in DOMAIN cached[i].spec =>
                           cached[i].spec.github_token = T_hidden
            /\ arg.health = "raises" \/ arg.vms # "ok" => cached = EmptyDict

\* the dashboard has cached two VMs, one created with a token the
\* sanitizer's patterns do not match, both with the placeholder
C35_Witness ==
    /\ arg.fn = "daemon_status" /\ ret # <<>>
    /\ arg.health = "ok" /\ arg.vms = "ok"
    /\ Cardinality(DOMAIN ret[1].vms.vms) = 2
    /\ arg.body.vms[GenId(0)].spec.github_token = PlainSecret
    /\ \A i \in DOMAIN ret[1].vms.vms :
           ret[1].vms.vms[i].spec.github_token = T_hidden

=============================================================================
